---- MODULE Spec2Model ----
(***************************************************************************)
(* Model of the standard-photometry notebook: the two cross-matches        *)
(* (b band against y band, then the standard catalog against the merged    *)
(* instrumental catalog) and the function join_catalogs that merges the    *)
(* catalogs, suppresses duplicate matches and applies the 3 arcsec cut.    *)
(*                                                                         *)
(* Tables are sequences of rows, a row is a function from column names to  *)
(* values.  Rows are numbered from 1 (the notebook numbers them from 0).   *)
(* All sources lie on the celestial equator (dec = 0), where the           *)
(* great-circle separation of two positions is exactly |ra1 - ra2|.        *)
(* Right ascensions given in degrees are counted in units of 1/15 arcsec,  *)
(* those given as hour angles in units of 1/15 second of time (1 arcsec),  *)
(* so that converting an hour angle into degrees multiplies by 15.         *)
(***************************************************************************)
EXTENDS Integers, Sequences, FiniteSets, TLC

(* ----------------------------- bounds ---------------------------------- *)
MaxB == 2          \* rows of b_catalog
MaxY == 2          \* rows of y_catalog
MaxStd == 2        \* rows returned by the Vizier query
MaxCoord == 4      \* sources lie at 0 .. MaxCoord arcsec along the equator

(* --------------------------- program constants ------------------------- *)
HourAngle == 15        \* degrees per hour angle
Angle3arcsec == 45     \* coord.Angle('3 arcsec').degree, in units of 1/15 arcsec

VARIABLES pc,            \* position in the notebook
          b_catalog, y_catalog, pos_by, phot_ins,
          phot_std, pos_std_ins, phot_std_ins,
          index_table, left_table, right_table,  \* arguments of the latest join_catalogs call
          matched, good_match, nearby,           \* its locals
          result,                                \* its local result at line 113, before the del
          raised,                                \* the exception that stopped the notebook, if any
          calls                                  \* the frames of join_catalogs calls run side by side

vars == <<pc, b_catalog, y_catalog, pos_by, phot_ins, phot_std, pos_std_ins,
          phot_std_ins, index_table, left_table, right_table, matched,
          good_match, nearby, result, raised, calls>>

(* ----------------------------- inputs ---------------------------------- *)
DegreeCoords == {HourAngle * k : k \in 0..MaxCoord}
HourCoords == 0..MaxCoord

SeqsUpTo(S, n) == UNION {[1..k -> S] : k \in 0..n}

\* a catalog of one image: id, ra, dec and the instrumental magnitude
InstrumentalCatalogs(n, mag0) ==
  {[i \in DOMAIN ras |-> [id |-> i, ra |-> ras[i], dec |-> 0, mag |-> mag0 + i]] :
      ras \in SeqsUpTo(DegreeCoords, n)}

\* the same catalogs selected from a photometry file that lacks a column
\* (both catalogs are rows of the one table read from the file)
ReadCatalogs(n, mag0, lacking) ==
  {[i \in DOMAIN t |-> [c \in DOMAIN t[i] \ {lacking} |-> t[i][c]]] :
      t \in InstrumentalCatalogs(n, mag0)}

\* one source at ra = 10.0 deg and one at ra = 10.001 deg, 3.6 arcsec apart
\* (36000 arcsec and 36003.6 arcsec, in units of 1/15 arcsec)
FieldAt10deg ==
  [left |-> <<[id |-> 1, ra |-> 540000, dec |-> 0, mag |-> 11]>>,
   right |-> <<[id |-> 1, ra |-> 540054, dec |-> 0, mag |-> 21]>>]

\* the rows of the Vizier table; the colour b-y may be missing (masked)
VizierCatalogs(n) ==
  {[i \in DOMAIN rows |-> ("recno" :> i) @@ ("RAJ2000" :> rows[i][1]) @@
                          ("DEJ2000" :> 0) @@
                          ("b-y" :> [value |-> 1, mask |-> rows[i][2]])] :
      rows \in SeqsUpTo(HourCoords \X BOOLEAN, n)}

(* --------------------------- table helpers ----------------------------- *)
\* mutant of DelCols: only one of the named columns is deleted
DelColsOne(row, cols) == [c \in DOMAIN row \ {CHOOSE x \in cols : TRUE} |-> row[c]]

DelCols(row, cols) == [c \in DOMAIN row \ cols |-> row[c]]

\* table[mask]: the rows whose mask entry is TRUE, in order
RECURSIVE MaskRows(_, _)
MaskRows(t, mask) ==
  IF t = <<>> THEN <<>>
  ELSE (IF mask[1] THEN <<t[1]>> ELSE <<>>) \o MaskRows(Tail(t), Tail(mask))

\* mutant of Multiply: the masks are added (or) instead of multiplied (and)
MultiplyOr(a, b) ==
  IF Len(a) = Len(b) THEN [i \in DOMAIN a |-> a[i] \/ b[i]]
  ELSE IF Len(a) = 1 THEN [i \in DOMAIN b |-> a[1] \/ b[i]]
  ELSE [i \in DOMAIN a |-> a[i] \/ b[1]]

\* list * column: elementwise product, a length-1 operand is broadcast
Multiply(a, b) ==
  IF Len(a) = Len(b) THEN [i \in DOMAIN a |-> a[i] /\ b[i]]
  ELSE IF Len(a) = 1 THEN [i \in DOMAIN b |-> a[1] /\ b[i]]
  ELSE [i \in DOMAIN a |-> a[i] /\ b[1]]

\* str.replace(old, new) on a column name made of a base name and a suffix
BaseNames == {"id", "ra", "dec", "mag"}

replace(col, old, new) ==
  IF \E b \in BaseNames : col = b \o old
  THEN (CHOOSE b \in BaseNames : col = b \o old) \o new
  ELSE col

\* the row with column c renamed to names[c]
RenameColumns(row, names) ==
  [n \in {names[c] : c \in DOMAIN row} |->
      row[CHOOSE c \in DOMAIN row : names[c] = n]]

ColNames(t) == IF t = <<>> THEN {} ELSE DOMAIN t[1]

\* table.hstack of three tables: their rows side by side; a column name used
\* by more than one table gets the suffix _k in table number k.
\* StackedNames: the names of the columns of table number k in the stacked table
StackedNames(tables, k) ==
  [c \in ColNames(tables[k]) |->
      IF \E j \in DOMAIN tables \ {k} : c \in ColNames(tables[j])
      THEN c \o "_" \o ToString(k) ELSE c]

StackRow(row, names) ==
  [n \in {names[c] : c \in DOMAIN names} |-> row[CHOOSE c \in DOMAIN names : names[c] = n]]

\* mutant of StackWith: a column of the third table whose name the second
\* table also has takes the value of the second table
StackWithOverwrite(tables, names) ==
  [i \in DOMAIN tables[1] |->
      StackRow(tables[1][i], names[1]) @@ StackRow(tables[2][i], names[2]) @@
      StackRow([c \in DOMAIN tables[3][i] |->
                  IF c \in DOMAIN tables[2][i] THEN tables[2][i][c] ELSE tables[3][i][c]],
               names[3])]

StackWith(tables, names) ==
  [i \in DOMAIN tables[1] |->
      StackRow(tables[1][i], names[1]) @@ StackRow(tables[2][i], names[2]) @@
      StackRow(tables[3][i], names[3])]

hstack(tables) ==
  StackWith(tables, [k \in DOMAIN tables |-> StackedNames(tables, k)])

\* mutant of TakeRows: every row is the row numbered by the first entry
TakeRowsFirst(t, index) == [i \in DOMAIN index |-> t[index[1]]]

\* table[column of row numbers]
TakeRows(t, index) == [i \in DOMAIN index |-> t[index[i]]]

Column(t, c) == [i \in DOMAIN t |-> t[i][c]]

(* ------------------------- sky coordinates ----------------------------- *)
\* coord.SkyCoord(ra, dec, unit=(raunit, 'degree')): positions in degrees
SkyCoord(ra, dec, raunit) ==
  [i \in DOMAIN ra |->
      [ra |-> IF raunit = "hourangle" THEN HourAngle * ra[i] ELSE ra[i],
       dec |-> dec[i]]]

\* mutant of separation: the difference of the right ascensions, signed
separationSigned(p, q) == p.ra - q.ra

\* great-circle separation of two positions on the equator
separation(p, q) == IF p.ra >= q.ra THEN p.ra - q.ra ELSE q.ra - p.ra

\* mutant of match_to_catalog_sky: the farthest position instead of the nearest
match_farthest(matchcoord, catalogcoord) ==
  LET Farthest(p) == {j \in DOMAIN catalogcoord :
                         \A k \in DOMAIN catalogcoord :
                            separation(p, catalogcoord[j]) >= separation(p, catalogcoord[k])}
      Choices == {idx \in [DOMAIN matchcoord -> DOMAIN catalogcoord] :
                     \A i \in DOMAIN matchcoord : idx[i] \in Farthest(matchcoord[i])}
  IN {[i \in DOMAIN matchcoord |->
         ("index" :> idx[i]) @@
         ("distance" :> separation(matchcoord[i], catalogcoord[idx[i]])) @@
         ("3d" :> separation(matchcoord[i], catalogcoord[idx[i]]))] : idx \in Choices}

\* matchcoord.match_to_catalog_sky(catalogcoord): for every position of
\* matchcoord the row number of a nearest position of catalogcoord, the
\* separation and the 3d distance.  Which of several equally near positions
\* is reported is not specified, so every choice is a possible outcome.
\* An empty catalogcoord raises ValueError (modelled by the callers).
match_to_catalog_sky(matchcoord, catalogcoord) ==
  LET Nearest(p) == {j \in DOMAIN catalogcoord :
                        \A k \in DOMAIN catalogcoord :
                           separation(p, catalogcoord[j]) <= separation(p, catalogcoord[k])}
      Choices == {idx \in [DOMAIN matchcoord -> DOMAIN catalogcoord] :
                     \A i \in DOMAIN matchcoord : idx[i] \in Nearest(matchcoord[i])}
  IN {[i \in DOMAIN matchcoord |->
         ("index" :> idx[i]) @@
         ("distance" :> separation(matchcoord[i], catalogcoord[idx[i]])) @@
         ("3d" :> separation(matchcoord[i], catalogcoord[idx[i]]))] : idx \in Choices}

(* --------------------------- join_catalogs ----------------------------- *)
\* matched.sort(['index', 'distance']): rows in ascending (index, distance)
\* order; the order of rows with equal keys is not specified
KeyLeq(r, s) ==
  r["index"] < s["index"] \/ (r["index"] = s["index"] /\ r["distance"] <= s["distance"])

\* mutant of sort: the rows stay in the order of the left table
sortSkipped(t) == {t}

\* mutant of sort: the rows in ascending index order only
sortByIndex(t) ==
  {[i \in DOMAIN t |-> t[p[i]]] :
      p \in {q \in Permutations(DOMAIN t) :
                \A i, j \in DOMAIN t : i < j => t[q[i]]["index"] <= t[q[j]]["index"]}}

\* mutant of sort: the index and distance columns sorted, the other columns
\* left in their rows
sortKeyColumns(t) ==
  {[i \in DOMAIN t |->
      [c \in DOMAIN t[i] |-> IF c \in {"index", "distance"} THEN t[p[i]][c] ELSE t[i][c]]] :
      p \in {q \in Permutations(DOMAIN t) :
                \A i, j \in DOMAIN t : i < j => KeyLeq(t[q[i]], t[q[j]])}}

sort(t) ==
  {[i \in DOMAIN t |-> t[p[i]]] :
      p \in {q \in Permutations(DOMAIN t) :
                \A i, j \in DOMAIN t : i < j => KeyLeq(t[q[i]], t[q[j]])}}

\* mutant of GoodMatch: no row is marked as a duplicate
GoodMatchAll(index) == <<TRUE>> \o [i \in 1..(Len(index) - 1) |-> TRUE]

\* mutant of GoodMatch: the comparisons first, the True at the end
GoodMatchShifted(index) ==
  [i \in 1..(Len(index) - 1) |-> index[i] # index[i + 1]] \o <<TRUE>>

\* good_match = [True] + [star != oldstar for star, oldstar in zip(index, index[1:])]
GoodMatch(index) ==
  <<TRUE>> \o [i \in 1..(Len(index) - 1) |-> index[i] # index[i + 1]]

\* mutants of Nearby: no cut, a cut that keeps the tolerance itself, and a
\* cut with the comparison reversed
NearbyAll(distance, tolerance) == [i \in DOMAIN distance |-> TRUE]

NearbyLeq(distance, tolerance) == [i \in DOMAIN distance |-> distance[i] <= tolerance]

NearbyFar(distance, tolerance) == [i \in DOMAIN distance |-> distance[i] > tolerance]

\* nearby = matched['distance'] < tolerance
Nearby(distance, tolerance) == [i \in DOMAIN distance |-> distance[i] < tolerance]

\* the body of join_catalogs for a given tolerance: every possible outcome,
\* as the locals after line 113 and the returned table
join_within(index_tab, left_tab, right_tab, tolerance) ==
  LET stacked == hstack(<<index_tab, left_tab,
                          TakeRows(right_tab, Column(index_tab, "index"))>>)
  IN {LET gm == GoodMatch(Column(m, "index"))
          nb == Nearby(Column(m, "distance"), tolerance)
          res == MaskRows(m, Multiply(gm, nb))
      IN [matched |-> m, good_match |-> gm, nearby |-> nb, result |-> res,
          returned |-> [i \in DOMAIN res |-> DelCols(res[i], {"index", "distance"})]] :
      m \in sort(stacked)}

join_catalogs(index_tab, left_tab, right_tab) ==
  join_within(index_tab, left_tab, right_tab, Angle3arcsec)

(* ------------------------------ notebook ------------------------------- *)
\* One action per code cell of the notebook, run from top to bottom.
Init ==
  /\ pc = "match_by"
  /\ \/ \E lacking \in {"", "ra", "dec"} :
           /\ b_catalog \in ReadCatalogs(MaxB, 10, lacking)
           /\ y_catalog \in ReadCatalogs(MaxY, 20, lacking)
     \/ /\ b_catalog = FieldAt10deg.left
        /\ y_catalog = FieldAt10deg.right
  /\ pos_by = <<>> /\ phot_ins = <<>>
  /\ phot_std = <<>> /\ pos_std_ins = <<>> /\ phot_std_ins = <<>>
  /\ index_table = <<>> /\ left_table = <<>> /\ right_table = <<>>
  /\ matched = <<>> /\ good_match = <<>> /\ nearby = <<>> /\ result = <<>>
  /\ raised = ""
  /\ calls = <<>>

Frame == <<index_table, left_table, right_table, matched, good_match, nearby, result>>

\* the locals of a call of join_catalogs
Call(f, i, l, r) ==
  /\ index_table' = i /\ left_table' = l /\ right_table' = r
  /\ matched' = f.matched /\ good_match' = f.good_match
  /\ nearby' = f.nearby /\ result' = f.result

\* table[name] raises KeyError when the table has rows and no such column
HasColumns(t, names) == t = <<>> \/ names \subseteq ColNames(t)

\* cell 4 with the KeyError of a missing position column swallowed: the
\* notebook goes on with an empty merged catalog
MatchBYSwallowsKeyError ==
  /\ pc = "match_by"
  /\ IF ~(HasColumns(b_catalog, {"ra", "dec"}) /\ HasColumns(y_catalog, {"ra", "dec"}))
     THEN pc' = "get_std" /\ UNCHANGED <<pos_by, raised>>
     ELSE LET b_pos == SkyCoord(Column(b_catalog, "ra"), Column(b_catalog, "dec"), "degree")
              y_pos == SkyCoord(Column(y_catalog, "ra"), Column(y_catalog, "dec"), "degree")
          IN IF y_pos = <<>>
             THEN pc' = "error_match_by" /\ raised' = "ValueError" /\ UNCHANGED pos_by
             ELSE \E t \in match_to_catalog_sky(b_pos, y_pos) :
                     /\ pos_by' = [i \in DOMAIN t |-> DelCols(t[i], {"3d"})]
                     /\ pc' = "join_by"
                     /\ UNCHANGED raised
  /\ UNCHANGED <<b_catalog, y_catalog, phot_ins, phot_std, pos_std_ins, phot_std_ins, calls>>
  /\ UNCHANGED Frame

\* cell 4: b_pos, y_pos and pos_by; the column lookups raise KeyError when a
\* position column is missing, match_to_catalog_sky raises ValueError when
\* the catalog to match against is empty
MatchBY ==
  /\ pc = "match_by"
  /\ IF ~(HasColumns(b_catalog, {"ra", "dec"}) /\ HasColumns(y_catalog, {"ra", "dec"}))
     THEN pc' = "error_match_by" /\ raised' = "KeyError" /\ UNCHANGED pos_by
     ELSE LET b_pos == SkyCoord(Column(b_catalog, "ra"), Column(b_catalog, "dec"), "degree")
              y_pos == SkyCoord(Column(y_catalog, "ra"), Column(y_catalog, "dec"), "degree")
          IN IF y_pos = <<>>
             THEN pc' = "error_match_by" /\ raised' = "ValueError" /\ UNCHANGED pos_by
             ELSE \E t \in match_to_catalog_sky(b_pos, y_pos) :
                     /\ pos_by' = [i \in DOMAIN t |-> DelCols(t[i], {"3d"})]
                     /\ pc' = "join_by"
                     /\ UNCHANGED raised
  /\ UNCHANGED <<b_catalog, y_catalog, phot_ins, phot_std, pos_std_ins, phot_std_ins, calls>>
  /\ UNCHANGED Frame

\* mutant of TidyName: the two band suffixes exchanged
TidyNameExchanged(col) == replace(replace(col, "_2", "_y"), "_3", "_b")

\* new_name = col.replace('_2', '_b').replace('_3', '_y')
TidyName(col) == replace(replace(col, "_2", "_b"), "_3", "_y")

\* the renaming loop and the colour column
Tidy(t) ==
  [i \in DOMAIN t |->
      LET row == RenameColumns(t[i], [c \in DOMAIN t[i] |-> TidyName(c)])
      IN ("mag_b-y" :> (row["mag_b"] - row["mag_y"])) @@ row]

\* cell 5 with the index table sorted in place instead of the stacked table
JoinBYSortsIndexTable ==
  /\ pc = "join_by"
  /\ \E f \in join_catalogs(pos_by, b_catalog, y_catalog) :
        /\ Call(f, pos_by, b_catalog, y_catalog)
        /\ phot_ins' = Tidy(f.returned)
        /\ pos_by' = [i \in DOMAIN f.matched |->
                        [index |-> f.matched[i]["index"],
                         distance |-> f.matched[i]["distance"]]]
  /\ pc' = "get_std"
  /\ UNCHANGED <<b_catalog, y_catalog, phot_std, pos_std_ins, phot_std_ins, raised, calls>>

\* cell 5: phot_ins = join_catalogs(pos_by, b_catalog, y_catalog), tidied
JoinBY ==
  /\ pc = "join_by"
  /\ \E f \in join_catalogs(pos_by, b_catalog, y_catalog) :
        /\ Call(f, pos_by, b_catalog, y_catalog)
        /\ phot_ins' = Tidy(f.returned)
  /\ pc' = "get_std"
  /\ UNCHANGED <<b_catalog, y_catalog, pos_by, phot_std, pos_std_ins, phot_std_ins, raised, calls>>

\* cell 6: the standard catalog, without the stars whose b-y is missing
GetStd ==
  /\ pc = "get_std"
  /\ \E raw \in VizierCatalogs(MaxStd) :
        phot_std' = MaskRows(raw, [i \in DOMAIN raw |-> ~raw[i]["b-y"].mask])
  /\ pc' = "join_std"
  /\ UNCHANGED <<b_catalog, y_catalog, pos_by, phot_ins, pos_std_ins, phot_std_ins, raised, calls>>
  /\ UNCHANGED Frame

\* cell 7: pos_std, pos_ins, pos_std_ins and
\* phot_std_ins = join_catalogs(pos_std_ins, phot_std, phot_ins)
JoinStd ==
  /\ pc = "join_std"
  /\ LET pos_std == SkyCoord(Column(phot_std, "RAJ2000"), Column(phot_std, "DEJ2000"), "hourangle")
         pos_ins == SkyCoord(Column(phot_ins, "ra_b"), Column(phot_ins, "dec_b"), "degree")
     IN IF pos_ins = <<>>
        THEN /\ pc' = "error_match_std" /\ raised' = "ValueError"
             /\ UNCHANGED <<pos_std_ins, phot_std_ins>>
             /\ UNCHANGED Frame
        ELSE \E t \in match_to_catalog_sky(pos_std, pos_ins) :
                LET pos == [i \in DOMAIN t |-> DelCols(t[i], {"3d"})]
                IN \E f \in join_catalogs(pos, phot_std, phot_ins) :
                      /\ pos_std_ins' = pos
                      /\ Call(f, pos, phot_std, phot_ins)
                      /\ phot_std_ins' = f.returned
                      /\ pc' = "done"
                      /\ UNCHANGED raised
  /\ UNCHANGED <<b_catalog, y_catalog, pos_by, phot_ins, phot_std, calls>>

Next == MatchBY \/ JoinBY \/ GetStd \/ JoinStd

Spec == Init /\ [][Next]_vars

(* ---------------- two calls of join_catalogs side by side -------------- *)
\* Two calls of join_catalogs, each on tables of its own, run statement by
\* statement in any interleaving.  A frame holds the arguments and the
\* locals of one call and the statement it is at.
CallCoords == {0, HourAngle * MaxCoord}

CallCatalogs(n, mag0) ==
  {t \in InstrumentalCatalogs(n, mag0) : \A i \in DOMAIN t : t[i]["ra"] \in CallCoords}

CallPositions(t) == SkyCoord(Column(t, "ra"), Column(t, "dec"), "degree")

\* the arguments of a call: two catalogs and an index table of theirs
CallArguments ==
  UNION {{[index_table |-> [i \in DOMAIN t |-> DelCols(t[i], {"3d"})],
           left_table |-> lr[1], right_table |-> lr[2]] :
            t \in match_to_catalog_sky(CallPositions(lr[1]), CallPositions(lr[2]))} :
         lr \in CallCatalogs(MaxB, 10) \X (CallCatalogs(MaxY, 20) \ {<<>>})}

NewFrame(args) ==
  [at |-> "stack", index_table |-> args.index_table,
   left_table |-> args.left_table, right_table |-> args.right_table,
   matched |-> <<>>, good_match |-> <<>>, nearby |-> <<>>, result |-> <<>>,
   returned |-> <<>>]

Notebook == <<pc, b_catalog, y_catalog, pos_by, phot_ins, phot_std, pos_std_ins,
              phot_std_ins, raised>>

InitTwoCalls ==
  /\ pc = "two_calls"
  /\ b_catalog = <<>> /\ y_catalog = <<>> /\ pos_by = <<>> /\ phot_ins = <<>>
  /\ phot_std = <<>> /\ pos_std_ins = <<>> /\ phot_std_ins = <<>>
  /\ index_table = <<>> /\ left_table = <<>> /\ right_table = <<>>
  /\ matched = <<>> /\ good_match = <<>> /\ nearby = <<>> /\ result = <<>>
  /\ raised = ""
  /\ calls \in [{1, 2} -> {NewFrame(args) : args \in CallArguments}]

\* lines 104-105: matched = table.hstack([...])
StackStep(c) ==
  /\ calls[c].at = "stack"
  /\ calls' = [calls EXCEPT
        ![c].matched = hstack(<<calls[c].index_table, calls[c].left_table,
                                TakeRows(calls[c].right_table,
                                         Column(calls[c].index_table, "index"))>>),
        ![c].at = "sort"]
  /\ UNCHANGED <<Notebook, Frame>>

\* line 106: matched.sort(['index', 'distance'])
SortStep(c) ==
  /\ calls[c].at = "sort"
  /\ \E m \in sort(calls[c].matched) :
        calls' = [calls EXCEPT ![c].matched = m, ![c].at = "scan"]
  /\ UNCHANGED <<Notebook, Frame>>

\* mutant of ScanStep: good_match is one list that all the calls extend
ScanStepSharedList(c) ==
  /\ calls[c].at = "scan"
  /\ calls' = [d \in DOMAIN calls |->
        [calls[d] EXCEPT
           !.good_match = GoodMatch(Column(calls[c].matched, "index")),
           !.at = IF d = c THEN "cut" ELSE @]]
  /\ UNCHANGED <<Notebook, Frame>>

\* lines 108-110: index and good_match
ScanStep(c) ==
  /\ calls[c].at = "scan"
  /\ calls' = [calls EXCEPT
        ![c].good_match = GoodMatch(Column(calls[c].matched, "index")),
        ![c].at = "cut"]
  /\ UNCHANGED <<Notebook, Frame>>

\* line 111: nearby
CutStep(c) ==
  /\ calls[c].at = "cut"
  /\ calls' = [calls EXCEPT
        ![c].nearby = Nearby(Column(calls[c].matched, "distance"), Angle3arcsec),
        ![c].at = "select"]
  /\ UNCHANGED <<Notebook, Frame>>

\* line 113: result = matched[good_match * nearby]
SelectStep(c) ==
  /\ calls[c].at = "select"
  /\ calls' = [calls EXCEPT
        ![c].result = MaskRows(calls[c].matched,
                               Multiply(calls[c].good_match, calls[c].nearby)),
        ![c].at = "return"]
  /\ UNCHANGED <<Notebook, Frame>>

\* lines 114-116: del result['index', 'distance']; return result
ReturnStep(c) ==
  /\ calls[c].at = "return"
  /\ calls' = [calls EXCEPT
        ![c].returned = [i \in DOMAIN calls[c].result |->
                           DelCols(calls[c].result[i], {"index", "distance"})],
        ![c].at = "returned"]
  /\ UNCHANGED <<Notebook, Frame>>

NextTwoCalls ==
  \E c \in DOMAIN calls :
     \/ StackStep(c) \/ SortStep(c) \/ ScanStep(c)
     \/ CutStep(c) \/ SelectStep(c) \/ ReturnStep(c)

SpecTwoCalls == InitTwoCalls /\ [][NextTwoCalls]_vars

(* ----------------------- reading a call's tables ----------------------- *)
\* The latest call of join_catalogs is the one of cell 7 once the notebook is
\* done, the one of cell 5 before; Returned is the catalog it returned (for
\* cell 5 with the tidied column names).
Site2 == pc = "done"

Returned == IF Site2 THEN phot_std_ins ELSE phot_ins

Dist(a, b) == IF a >= b THEN a - b ELSE b - a

\* identity and right ascension (in degrees) of the records of a merged row
OutLeftId(row) == IF Site2 THEN row["recno"] ELSE row["id_b"]
OutRightId(row) == IF Site2 THEN row["id_b"] ELSE row["id_y"]
OutLeftRa(row) == IF Site2 THEN HourAngle * row["RAJ2000"] ELSE row["ra_b"]
OutRightRa(row) == IF Site2 THEN row["ra_b"] ELSE row["ra_y"]
OutDist(row) == Dist(OutLeftRa(row), OutRightRa(row))

\* the same of the rows of left_table, right_table and matched
InLeftId(r) == IF Site2 THEN r["recno"] ELSE r["id"]
InRightId(r) == IF Site2 THEN r["id_b"] ELSE r["id"]
InLeftRa(r) == IF Site2 THEN HourAngle * r["RAJ2000"] ELSE r["ra"]
InRightRa(r) == IF Site2 THEN r["ra_b"] ELSE r["ra"]
MatchedLeftId(r) == IF Site2 THEN r["recno"] ELSE r["id_2"]

\* the right record that nearest-neighbour lookup gave left record number p,
\* and their angular distance
Candidate(p) == right_table[index_table[p]["index"]]
CandDist(p) == Dist(InLeftRa(left_table[p]), InRightRa(Candidate(p)))

InOutput(leftid) == \E i \in DOMAIN Returned : OutLeftId(Returned[i]) = leftid

(* ------------------------------- claims -------------------------------- *)
\* C1: no two rows of the catalog returned by join_catalogs share the same
\* right_index (the same right-catalog record).
C1_RightRecordUsedOnce ==
  /\ \A i, j \in DOMAIN result : i # j => result[i]["index"] # result[j]["index"]
  /\ \A i, j \in DOMAIN Returned :
        i # j => OutRightId(Returned[i]) # OutRightId(Returned[j])

\* two candidates within tolerance share a right record, and a row is returned
C1_Witness ==
  /\ Len(Returned) >= 1
  /\ \E i, j \in DOMAIN matched :
        /\ i # j /\ matched[i]["index"] = matched[j]["index"]
        /\ nearby[i] /\ nearby[j]

\* C2: no two returned rows come from the same left record, and a returned
\* row pairs its left record with the candidate of the nearest-neighbour lookup.
C2_LeftRecordUsedOnce ==
  /\ \A i, j \in DOMAIN Returned :
        i # j => OutLeftId(Returned[i]) # OutLeftId(Returned[j])
  /\ \A i \in DOMAIN Returned :
        \E p \in DOMAIN left_table :
           /\ InLeftId(left_table[p]) = OutLeftId(Returned[i])
           /\ InRightId(Candidate(p)) = OutRightId(Returned[i])

\* a row is returned whose right record is not the first of two right records
C2_Witness ==
  /\ Len(left_table) >= 2 /\ Len(right_table) >= 2
  /\ \E i \in DOMAIN Returned : OutRightId(Returned[i]) # InRightId(right_table[1])

\* C3: the candidate kept for a right record R is the one with the smallest
\* angular distance among the candidates that share R.
C3_ClosestCandidateKept ==
  /\ \A i \in DOMAIN result : \A k \in DOMAIN matched :
        matched[k]["index"] = result[i]["index"]
           => result[i]["distance"] <= matched[k]["distance"]
  /\ \A i \in DOMAIN Returned : \A p \in DOMAIN left_table :
        InRightId(Candidate(p)) = OutRightId(Returned[i])
           => OutDist(Returned[i]) <= CandDist(p)

\* two candidates within tolerance share R at different distances; R is matched
C3_Witness ==
  \E p, q \in DOMAIN left_table :
     /\ index_table[p]["index"] = index_table[q]["index"]
     /\ CandDist(p) < CandDist(q) /\ CandDist(q) < Angle3arcsec
     /\ \E i \in DOMAIN Returned : OutRightId(Returned[i]) = InRightId(Candidate(p))

\* C4: when left records A and B have the same nearest right record and A
\* is strictly closer, no returned row comes from B.
C4_LoserDropped ==
  \A p, q \in DOMAIN left_table :
     (index_table[p]["index"] = index_table[q]["index"] /\ CandDist(p) < CandDist(q))
        => ~InOutput(InLeftId(left_table[q]))

\* A keeps R, B is dropped although its second-nearest right record S is
\* within tolerance of B and unmatched
C4_Witness ==
  \E p, q \in DOMAIN left_table :
     /\ index_table[p]["index"] = index_table[q]["index"]
     /\ CandDist(p) < CandDist(q)
     /\ InOutput(InLeftId(left_table[p]))
     /\ \E s \in DOMAIN right_table :
           /\ s # index_table[q]["index"]
           /\ Dist(InLeftRa(left_table[q]), InRightRa(right_table[s])) > CandDist(q)
           /\ Dist(InLeftRa(left_table[q]), InRightRa(right_table[s])) < Angle3arcsec
           /\ \A i \in DOMAIN Returned :
                 OutRightId(Returned[i]) # InRightId(right_table[s])

\* C5: in every returned row no right record is strictly nearer to the left
\* record than the right record of the row.
C5_NearestNeighbourPairs ==
  \A i \in DOMAIN Returned : \A k \in DOMAIN right_table :
     OutDist(Returned[i]) <= Dist(OutLeftRa(Returned[i]), InRightRa(right_table[k]))

\* a returned row whose left record has a strictly farther right record
C5_Witness ==
  \E i \in DOMAIN Returned : \E k \in DOMAIN right_table :
     OutDist(Returned[i]) < Dist(OutLeftRa(Returned[i]), InRightRa(right_table[k]))

\* C6: no returned row has an angular distance greater than the tolerance.
C6_NoRowBeyondTolerance ==
  \A i \in DOMAIN Returned : ~(OutDist(Returned[i]) > Angle3arcsec)

\* a candidate beyond the tolerance, the only one for its right record, rejected
C6_Witness ==
  \E p \in DOMAIN left_table :
     /\ CandDist(p) > Angle3arcsec
     /\ \A q \in DOMAIN left_table :
           q # p => index_table[q]["index"] # index_table[p]["index"]
     /\ ~InOutput(InLeftId(left_table[p]))

\* C7 as claimed: a candidate that survived de-duplication and whose angular
\* distance equals the tolerance yields a merged row.
C7_ExactToleranceKept ==
  \A k \in DOMAIN matched :
     (good_match[k] /\ matched[k]["distance"] = Angle3arcsec)
        => InOutput(MatchedLeftId(matched[k]))

\* C7 amended: a candidate that survived de-duplication yields a merged row
\* exactly when its angular distance is strictly less than the tolerance; a
\* candidate exactly at the tolerance is dropped.
C7_StrictCutoff ==
  \A k \in DOMAIN matched :
     good_match[k] =>
        (InOutput(MatchedLeftId(matched[k])) <=> matched[k]["distance"] < Angle3arcsec)

\* a candidate that survived de-duplication lies exactly at the tolerance
C7_Witness ==
  \E k \in DOMAIN matched :
     /\ good_match[k] /\ matched[k]["distance"] = Angle3arcsec
     /\ ~InOutput(MatchedLeftId(matched[k]))

\* C8: at both call sites the pairs matched are strictly less than 3 arcsec
\* apart, and a pair exactly 3 arcsec apart is not matched.
C8_BothSitesWithin3arcsec ==
  /\ \A i \in DOMAIN phot_ins :
        Dist(phot_ins[i]["ra_b"], phot_ins[i]["ra_y"]) < Angle3arcsec
  /\ \A i \in DOMAIN phot_std_ins :
        Dist(HourAngle * phot_std_ins[i]["RAJ2000"], phot_std_ins[i]["ra_b"]) < Angle3arcsec
  /\ \A p \in DOMAIN left_table :
        CandDist(p) = Angle3arcsec => ~InOutput(InLeftId(left_table[p]))

\* both joins have run, both had a candidate exactly 3 arcsec away, and both
\* returned a row
C8_Witness ==
  /\ pc = "done"
  /\ Len(phot_ins) >= 1 /\ Len(phot_std_ins) >= 1
  /\ \E p \in DOMAIN pos_by : pos_by[p]["distance"] = Angle3arcsec
  /\ \E p \in DOMAIN pos_std_ins : pos_std_ins[p]["distance"] = Angle3arcsec

\* C9: for the catalogs of a call and tolerances t1 <= t2, join_catalogs
\* returns no more rows with tolerance t1 than with tolerance t2 (the call
\* itself being the case of 3 arcsec).
Tolerances == {HourAngle * k : k \in 0..(MaxCoord + 1)}

RowCounts(t) ==
  {Len(f.returned) : f \in join_within(index_table, left_table, right_table, t)}

C9_MonotoneInTolerance ==
  pc \in {"get_std", "done"} =>
     \A counts \in {[t \in Tolerances |-> RowCounts(t)]} :
        /\ Len(Returned) \in counts[Angle3arcsec]
        /\ \A t1, t2 \in Tolerances :
              t1 <= t2 => \A n1 \in counts[t1], n2 \in counts[t2] : n1 <= n2

\* a call whose row count grows from one row to more with the tolerance
C9_Witness ==
  /\ pc \in {"get_std", "done"}
  /\ \E counts \in {[t \in Tolerances |-> RowCounts(t)]} :
        \E t1, t2 \in Tolerances :
           /\ t1 < Angle3arcsec /\ Angle3arcsec < t2
           /\ \E n1 \in counts[t1], n2 \in counts[t2] : 1 <= n1 /\ n1 < n2

\* C10 as claimed: with an empty left catalog or an empty right catalog the
\* match does not fail and returns an empty catalog.
C10_EmptyInputNeverFails ==
  (b_catalog = <<>> \/ y_catalog = <<>>) =>
     /\ pc # "error_match_by"
     /\ pc \notin {"match_by", "join_by"} => phot_ins = <<>>

\* C11 as claimed: join_catalogs run with a tolerance that is zero or negative
\* fails: it has no outcome, so no catalog, not even an empty one, is returned.
NonPositiveAngles == {0, 0 - HourAngle}

C11_NonPositiveToleranceRejected ==
  pc \in {"get_std", "done"} =>
     \A t \in NonPositiveAngles :
        join_within(index_table, left_table, right_table, t) = {}

\* C12 as claimed: when the b or the y catalog lacks a position field, the
\* match of cells 4 and 5 fails with SchemaMismatchError.
LacksPosition(t) == ~HasColumns(t, {"ra", "dec"})

C13_InputsUntouched ==
  [][/\ pc = "join_by" =>
          /\ index_table' = pos_by /\ pos_by' = pos_by
          /\ left_table' = b_catalog /\ b_catalog' = b_catalog
          /\ right_table' = y_catalog /\ y_catalog' = y_catalog
     /\ pc = "join_std" /\ pc' = "done" =>
          /\ index_table' = pos_std_ins'
          /\ left_table' = phot_std /\ phot_std' = phot_std
          /\ right_table' = phot_ins /\ phot_ins' = phot_ins]_vars

\* after a call whose sort moved the second left record to the front, whose
\* mask dropped a row and whose result lost the index and distance columns
C13_Witness ==
  /\ pc = "get_std"
  /\ Len(matched) = 2 /\ matched[1]["id_2"] = 2
  /\ matched[1]["index"] # index_table[1]["index"]
  /\ Len(phot_ins) = 1 /\ "index" \notin DOMAIN phot_ins[1]
  /\ index_table = pos_by /\ left_table = b_catalog /\ right_table = y_catalog

\* C14: every row of the sorted table, and so every row of the result and of
\* the returned catalog, holds all the fields of one left record, all the
\* fields of the right record that the index table gives for that left
\* record, and the index and distance of that same line of the index table.
SiteSuffix == IF Site2 THEN [left |-> "", right |-> "", outleft |-> "", outright |-> ""]
              ELSE [left |-> "_2", right |-> "_3", outleft |-> "_b", outright |-> "_y"]

HoldsPair(row, p, leftsuffix, rightsuffix) ==
  /\ \A c \in DOMAIN left_table[p] : row[c \o leftsuffix] = left_table[p][c]
  /\ \A c \in DOMAIN Candidate(p) : row[c \o rightsuffix] = Candidate(p)[c]

C14_RowsStayAligned ==
  pc \in {"get_std", "done"} =>
     /\ \A i \in DOMAIN matched :
           \E p \in DOMAIN left_table :
              /\ HoldsPair(matched[i], p, SiteSuffix.left, SiteSuffix.right)
              /\ matched[i]["index"] = index_table[p]["index"]
              /\ matched[i]["distance"] = index_table[p]["distance"]
     /\ \A i \in DOMAIN result :
           \E p \in DOMAIN left_table :
              /\ HoldsPair(result[i], p, SiteSuffix.left, SiteSuffix.right)
              /\ result[i]["index"] = index_table[p]["index"]
              /\ result[i]["distance"] = index_table[p]["distance"]
     /\ Len(Returned) = Len(result)
     /\ \A i \in DOMAIN Returned :
           \E p \in DOMAIN left_table :
              /\ HoldsPair(Returned[i], p, SiteSuffix.outleft, SiteSuffix.outright)
              /\ HoldsPair(result[i], p, SiteSuffix.left, SiteSuffix.right)

\* a call whose sort moved the second left record to the front, with
\* different candidates at different distances, and whose mask kept a row
\* and dropped a row
C14_Witness ==
  /\ pc \in {"get_std", "done"}
  /\ Len(matched) = 2 /\ MatchedLeftId(matched[1]) = InLeftId(left_table[2])
  /\ index_table[1]["index"] # index_table[2]["index"]
  /\ index_table[1]["distance"] # index_table[2]["distance"]
  /\ Len(Returned) = 1

\* C15: the b and the y catalog have the same field names; every row of the
\* merged catalog has, for each of them, the value of its left record under
\* the name with _b and the value of its right record under the name with _y
\* (and in join_catalogs under the names with _2 and _3).
SharedNames == ColNames(b_catalog) \cap ColNames(y_catalog)

C15_BothValuesKept ==
  /\ pc \notin {"match_by", "join_by", "error_match_by"} =>
        \A i \in DOMAIN phot_ins :
           \E p \in DOMAIN b_catalog :
              \A c \in SharedNames :
                 /\ {c \o "_b", c \o "_y"} \subseteq DOMAIN phot_ins[i]
                 /\ c \notin DOMAIN phot_ins[i]
                 /\ phot_ins[i][c \o "_b"] = b_catalog[p][c]
                 /\ phot_ins[i][c \o "_y"] = y_catalog[pos_by[p]["index"]][c]
  /\ pc = "get_std" =>
        \A i \in DOMAIN matched :
           \E p \in DOMAIN b_catalog :
              \A c \in SharedNames :
                 /\ {c \o "_2", c \o "_3"} \subseteq DOMAIN matched[i]
                 /\ matched[i][c \o "_2"] = b_catalog[p][c]
                 /\ matched[i][c \o "_3"] = y_catalog[pos_by[p]["index"]][c]

\* a merged row whose two records differ in every shared field but dec
C15_Witness ==
  /\ pc = "get_std"
  /\ SharedNames = {"id", "ra", "dec", "mag"}
  /\ \E i \in DOMAIN phot_ins :
        /\ phot_ins[i]["id_b"] # phot_ins[i]["id_y"]
        /\ phot_ins[i]["ra_b"] # phot_ins[i]["ra_y"]
        /\ phot_ins[i]["mag_b"] # phot_ins[i]["mag_y"]

\* C16 as claimed: the index table has one line per left record, and when
\* several right records are at the same smallest distance of a left record
\* its line names the one with the lowest index.
NearestRows(left_ra, right_ras) ==
  {j \in DOMAIN right_ras :
      \A k \in DOMAIN right_ras : Dist(left_ra, right_ras[j]) <= Dist(left_ra, right_ras[k])}

Lowest(S) == CHOOSE j \in S : \A k \in S : j <= k

C17_PositionOfLeftRecord ==
  /\ pc \notin {"match_by", "join_by", "error_match_by"} =>
        \A i \in DOMAIN phot_ins :
           \E p \in DOMAIN b_catalog :
              /\ phot_ins[i]["id_b"] = b_catalog[p]["id"]
              /\ phot_ins[i]["ra_b"] = b_catalog[p]["ra"]
              /\ phot_ins[i]["dec_b"] = b_catalog[p]["dec"]
              /\ phot_ins[i]["id_y"] = y_catalog[pos_by[p]["index"]]["id"]
  /\ pc = "done" =>
        /\ \A p \in DOMAIN pos_std_ins :
              \E q \in DOMAIN b_catalog :
                 /\ phot_ins[pos_std_ins[p]["index"]]["id_b"] = b_catalog[q]["id"]
                 /\ pos_std_ins[p]["distance"] =
                       Dist(HourAngle * phot_std[p]["RAJ2000"], b_catalog[q]["ra"])
        /\ \A i \in DOMAIN phot_std_ins :
              \E q \in DOMAIN b_catalog :
                 /\ phot_std_ins[i]["id_b"] = b_catalog[q]["id"]
                 /\ phot_std_ins[i]["ra_b"] = b_catalog[q]["ra"]
                 /\ Dist(HourAngle * phot_std_ins[i]["RAJ2000"], b_catalog[q]["ra"]) < Angle3arcsec

\* both matches have returned a row, for a star whose b and y positions
\* differ, the y position being too far from the standard star to match
C17_Witness ==
  /\ pc = "done"
  /\ \E i \in DOMAIN phot_std_ins :
        /\ phot_std_ins[i]["ra_b"] # phot_std_ins[i]["ra_y"]
        /\ Dist(HourAngle * phot_std_ins[i]["RAJ2000"], phot_std_ins[i]["ra_y"]) >= Angle3arcsec

\* C18: the separation of two positions is the same in both directions, so
\* when the y catalog is matched against the b catalog as well, a pair that
\* each lookup gives for the other has the same distance in both index
\* tables.
PosB == SkyCoord(Column(b_catalog, "ra"), Column(b_catalog, "dec"), "degree")

PosY == SkyCoord(Column(y_catalog, "ra"), Column(y_catalog, "dec"), "degree")

Angle1arcsec == Angle3arcsec \div 3

Angle10arcsec == 10 * Angle1arcsec

C19_Fixture ==
  /\ b_catalog = FieldAt10deg.left /\ y_catalog = FieldAt10deg.right
  /\ pc \in {"get_std", "join_std", "error_match_std"}

After(frame, places) == frame.at \in places

RunsAsAlone(frame) ==
  \E f \in join_catalogs(frame.index_table, frame.left_table, frame.right_table) :
     /\ After(frame, {"scan", "cut", "select", "return", "returned"}) =>
           frame.matched = f.matched
     /\ After(frame, {"cut", "select", "return", "returned"}) =>
           frame.good_match = f.good_match
     /\ After(frame, {"select", "return", "returned"}) => frame.nearby = f.nearby
     /\ After(frame, {"return", "returned"}) => frame.result = f.result
     /\ After(frame, {"returned"}) => frame.returned = f.returned

C21_CallsDoNotInterfere ==
  /\ [](\A c \in DOMAIN calls : RunsAsAlone(calls[c]))
  /\ [][\A c \in DOMAIN calls :
          /\ calls'[c].index_table = calls[c].index_table
          /\ calls'[c].left_table = calls[c].left_table
          /\ calls'[c].right_table = calls[c].right_table
          /\ calls'[c].at = calls[c].at => calls'[c] = calls[c]]_vars

\* both calls are under way, each with a sorted table and a duplicate mask
\* of its own, the first about to return one row and the second two
C21_Witness ==
  /\ DOMAIN calls = {1, 2}
  /\ calls[1].at = "return" /\ calls[2].at = "select"
  /\ calls[1].good_match = <<TRUE, FALSE>> /\ calls[2].good_match = <<TRUE, TRUE>>
  /\ calls[1].matched # calls[2].matched
  /\ Len(calls[1].result) = 1 /\ calls[2].nearby = <<TRUE, TRUE>>

\* The algorithm in two passes over the sorted candidates: keep, for each
\* index, the first candidate that has it; then apply the cutoff.
Rows(t) == {t[i] : i \in DOMAIN t}

FirstOfIndex(m) ==
  {m[i] : i \in {k \in DOMAIN m : \A j \in 1..(k - 1) : m[j]["index"] # m[k]["index"]}}

\* The reduction: for each index one candidate of smallest distance among
\* those that have it, in every possible way; the cutoff comes after.
ArgMin(m, g) ==
  {i \in DOMAIN m :
      /\ m[i]["index"] = g
      /\ \A j \in DOMAIN m : m[j]["index"] = g => m[i]["distance"] <= m[j]["distance"]}

GroupByArgMin(m) ==
  {{m[pick[g]] : g \in DOMAIN pick} :
      pick \in {p \in [{m[i]["index"] : i \in DOMAIN m} -> DOMAIN m] :
                  \A g \in DOMAIN p : p[g] \in ArgMin(m, g)}}

\* C22 as claimed: the rows that join_catalogs keeps are those of the two
\* passes and those of the reduction, with a cutoff that drops the candidates
\* whose distance is greater than the tolerance.
C22_SameRowsWithCutoffBeyond ==
  pc \in {"get_std", "done"} =>
     /\ Rows(result) = {r \in FirstOfIndex(matched) : ~(r["distance"] > Angle3arcsec)}
     /\ {Rows(f.result) : f \in join_catalogs(index_table, left_table, right_table)}
           = {{r \in S : ~(r["distance"] > Angle3arcsec)} : S \in GroupByArgMin(matched)}

\* C22: join_catalogs computes the duplicate mask and the distance mask each
\* over all the sorted candidates and keeps the rows where both hold; these
\* are the rows of the two passes (first of each index, then the cutoff) and
\* those of the reduction followed by the cutoff, when the cutoff keeps the
\* candidates whose distance is less than the tolerance and drops the others.
C22_SameRowsWithStrictCutoff ==
  pc \in {"get_std", "done"} =>
     /\ good_match = GoodMatch(Column(matched, "index"))
     /\ nearby = Nearby(Column(matched, "distance"), Angle3arcsec)
     /\ Rows(result) = {matched[i] : i \in {k \in DOMAIN matched : good_match[k] /\ nearby[k]}}
     /\ Rows(result) = {r \in FirstOfIndex(matched) : r["distance"] < Angle3arcsec}
     /\ {Rows(f.result) : f \in join_catalogs(index_table, left_table, right_table)}
           = {{r \in S : r["distance"] < Angle3arcsec} : S \in GroupByArgMin(matched)}

\* two candidates for one right record, both within the tolerance and at
\* different distances: the duplicate mask alone drops the second
C22_Witness ==
  /\ pc \in {"get_std", "done"}
  /\ Len(matched) = 2 /\ good_match = <<TRUE, FALSE>> /\ nearby = <<TRUE, TRUE>>
  /\ matched[1]["distance"] < matched[2]["distance"]
  /\ Len(result) = 1

\* C23: for a sorted candidate table of n >= 1 rows good_match has n entries;
\* the first is True and every other one is True exactly when the index of
\* its row differs from the index of the row before, so that the entries
\* that are True are those of the first row of each run of equal index.
C23_GoodMatchMarksRunStarts ==
  pc \in {"get_std", "done"} /\ matched # <<>> =>
     /\ Len(good_match) = Len(matched)
     /\ good_match[1] = TRUE
     /\ \A i \in 2..Len(matched) :
           good_match[i] = (matched[i]["index"] # matched[i - 1]["index"])
     /\ \A i \in DOMAIN matched :
           good_match[i] = (\A j \in 1..(i - 1) : matched[j]["index"] # matched[i]["index"])

\* the second join has sorted two candidates for the same right record
C23_Witness ==
  /\ pc = "done"
  /\ Len(matched) = 2 /\ matched[1]["index"] = matched[2]["index"]
  /\ Len(good_match) = 2 /\ good_match[1] /\ ~good_match[2]

\* C24: when two or more left records have the same right record R as their
\* candidate, at the same distance, which is the smallest for R and less
\* than the tolerance, exactly one of them is in the returned catalog, no
\* other left record with candidate R is, and R is in exactly one row.
CandidateOf(R) == {p \in DOMAIN left_table : index_table[p]["index"] = R}

ClosestOf(R) ==
  {p \in CandidateOf(R) : \A q \in CandidateOf(R) : CandDist(p) <= CandDist(q)}

C24_OneOfTiedKept ==
  pc \in {"get_std", "done"} =>
     \A R \in DOMAIN right_table :
        (Cardinality(ClosestOf(R)) >= 2 /\
            \A p \in ClosestOf(R) : CandDist(p) < Angle3arcsec) =>
           /\ Cardinality({p \in ClosestOf(R) : InOutput(InLeftId(left_table[p]))}) = 1
           /\ \A p \in CandidateOf(R) \ ClosestOf(R) : ~InOutput(InLeftId(left_table[p]))
           /\ Cardinality({i \in DOMAIN Returned :
                             OutRightId(Returned[i]) = InRightId(right_table[R])}) = 1

\* two left records at different positions, on either side of the right
\* record that both have as candidate, at the same distance from it
C24_Witness ==
  /\ pc \in {"get_std", "done"}
  /\ \E R \in DOMAIN right_table :
        /\ ClosestOf(R) = {1, 2}
        /\ CandDist(1) > 0 /\ CandDist(1) < Angle3arcsec
        /\ InLeftRa(left_table[1]) # InLeftRa(left_table[2])
  /\ Len(Returned) = 1

\* C25: the rows that join_catalogs returns are in strictly increasing order
\* of the index of their right record, whatever the order of their left
\* records in the left catalog.
C25_OrderedByRightIndex ==
  pc \in {"get_std", "done"} =>
     /\ \A i, j \in DOMAIN result : i < j => result[i]["index"] < result[j]["index"]
     /\ Len(Returned) = Len(result)
     /\ \A i \in DOMAIN Returned :
           OutRightId(Returned[i]) = InRightId(right_table[result[i]["index"]])

\* two rows returned, the second left record first
C25_Witness ==
  /\ pc \in {"get_std", "done"}
  /\ Len(Returned) = 2 /\ Len(left_table) = 2
  /\ OutLeftId(Returned[1]) = InLeftId(left_table[2])
  /\ OutLeftId(Returned[2]) = InLeftId(left_table[1])
  /\ result[1]["index"] = 1 /\ result[2]["index"] = 2

\* C26: no row of the catalog that join_catalogs returns has an index or a
\* distance column: its columns are those of the left table and those of
\* the right table (with the suffixes of the stacking where the two tables
\* share a name), while the rows of result before line 114 had both.
ReturnedNames ==
  {c \o SiteSuffix.left : c \in ColNames(left_table)} \cup
  {c \o SiteSuffix.right : c \in ColNames(right_table)}

C26_NoIndexNoDistance ==
  /\ pc \in {"get_std", "done"} =>
        /\ \A f \in join_catalogs(index_table, left_table, right_table) :
              /\ Len(f.returned) = Len(f.result)
              /\ \A i \in DOMAIN f.returned :
                    /\ DOMAIN f.returned[i] = ReturnedNames
                    /\ DOMAIN f.result[i] = ReturnedNames \cup {"index", "distance"}
        /\ \A i \in DOMAIN result :
              DOMAIN result[i] = ReturnedNames \cup {"index", "distance"}
        /\ {"index", "distance"} \cap ReturnedNames = {}
  /\ pc = "get_std" =>
        \A i \in DOMAIN phot_ins :
           DOMAIN phot_ins[i] = {TidyName(c) : c \in ReturnedNames} \cup {"mag_b-y"}
  /\ pc = "done" =>
        \A i \in DOMAIN phot_std_ins : DOMAIN phot_std_ins[i] = ReturnedNames

\* the second join has returned a row, made of a row of result that had an
\* index and a distance
C26_Witness ==
  /\ pc = "done"
  /\ Len(phot_std_ins) >= 1 /\ Len(result) = Len(phot_std_ins)
  /\ {"index", "distance"} \subseteq DOMAIN result[1]
  /\ {"index", "distance"} \cap DOMAIN phot_std_ins[1] = {}
  /\ {"recno", "id_b", "id_y"} \subseteq DOMAIN phot_std_ins[1]

\* C27: after the two joins no record of the standard catalog, no record of
\* the b catalog and no record of the y catalog is in more than one row of
\* the final catalog; every final row holds one row of the first join's
\* catalog, and the final catalog has no more rows than that one.
C27_FinalCatalogOneToOne ==
  pc = "done" =>
     /\ \A i, j \in DOMAIN phot_std_ins :
           i # j => /\ phot_std_ins[i]["recno"] # phot_std_ins[j]["recno"]
                    /\ phot_std_ins[i]["id_b"] # phot_std_ins[j]["id_b"]
                    /\ phot_std_ins[i]["id_y"] # phot_std_ins[j]["id_y"]
     /\ \A i \in DOMAIN phot_std_ins :
           /\ \E k \in DOMAIN phot_ins :
                 \A c \in DOMAIN phot_ins[k] : phot_std_ins[i][c] = phot_ins[k][c]
           /\ \E k \in DOMAIN phot_std : phot_std_ins[i]["recno"] = phot_std[k]["recno"]
     /\ Len(phot_std_ins) <= Len(phot_ins)
     /\ Len(phot_std_ins) <= Len(phot_std)

\* the first join returned two rows, two standard stars have the same one
\* of them as candidate, within 3 arcsec, and the final catalog has one row
C27_Witness ==
  /\ pc = "done"
  /\ Len(phot_ins) = 2 /\ Len(phot_std) = 2
  /\ pos_std_ins[1]["index"] = pos_std_ins[2]["index"]
  /\ pos_std_ins[1]["distance"] < Angle3arcsec /\ pos_std_ins[2]["distance"] < Angle3arcsec
  /\ Len(phot_std_ins) = 1

====
